---- MODULE Spec2Model ----
(***************************************************************************)
(* One render pass of rust-web-markdown (src/src/lib.rs, render_markdown)  *)
(* and the click handlers it wires up.                                     *)
(*                                                                         *)
(* The pass collects the parser's (Event, Range) stream, rewrites          *)
(* SoftBreak to HardBreak when props.hard_line_breaks is set, lets the     *)
(* Renderer consume the stream, registers the math stylesheet and wraps    *)
(* the top-level nodes in one fragment.  Views are the terms built by the  *)
(* Context trait's constructors; a handler is the closure it was made      *)
(* from (its code and its captured values).                                *)
(*                                                                         *)
(* The Renderer itself (mod render, mod component) is not among the        *)
(* sources; its step is modelled from the specification, section 4.1.      *)
(***************************************************************************)
EXTENDS Naturals, Sequences, FiniteSets

VARIABLES
    props,      \* MarkdownProps of the context, fixed for the pass
    source,     \* the stream as the parser produced it
    stream,     \* the collected stream, after the soft-break rewrite
    pc,         \* position in render_markdown
    pos,        \* number of events the Renderer has consumed
    stack,      \* the Renderer's open accumulators, innermost last
    elements,   \* top-level nodes produced so far
    result,     \* the view render_markdown returned
    fragments,  \* el_fragment calls so far: the call site of each
    mounts,     \* mount_dynamic_link calls so far
    htmlCalls,  \* call_html_callback calls so far: callback and input
    click       \* the latest activation of a handler by the host

vars == <<props, source, stream, pc, pos, stack, elements, result,
          fragments, mounts, htmlCalls, click>>

\* Longest event stream the parser hands over.
MaxLen == 4

\* Option<T>
None == [some |-> FALSE]
Some(v) == [some |-> TRUE, value |-> v]

Last(s) == s[Len(s)]
Front(s) == SubSeq(s, 1, Len(s) - 1)

-----------------------------------------------------------------------------
(* Events of the parser.  kind is the construct of a Start or End, arg the *)
(* text of a leaf, the url of a link or the name of a component, checked   *)
(* the state of a task-list marker.                                        *)

Ev(tag, kind, arg, checked) ==
    [tag |-> tag, kind |-> kind, arg |-> arg, checked |-> checked]

StartEv(kind, arg) == Ev("Start", kind, arg, FALSE)
EndEv(kind) == Ev("End", kind, "", FALSE)
LeafEv(tag, arg) == Ev(tag, "", arg, FALSE)
TaskEv(checked) == Ev("TaskListMarker", "", "", checked)

SoftBreak == LeafEv("SoftBreak", "")
HardBreak == LeafEv("HardBreak", "")

\* Range<usize>
Range(start, end) == [start |-> start, end |-> end]

-----------------------------------------------------------------------------
(* The Context trait: the host's constructors are free terms.              *)

DefaultAttributes ==
    [classes |-> <<>>, style |-> None, inner_html |-> None, on_click |-> None]

ElWithAttributes(e, inside, attributes) ==
    [node |-> "element", element |-> e, inside |-> inside,
     attributes |-> attributes]

El(e, inside) == ElWithAttributes(e, inside, DefaultAttributes)

ElHr(attributes) == [node |-> "hr", attributes |-> attributes]

ElBr == [node |-> "br"]

ElFragment(children) == [node |-> "fragment", children |-> children]

ElA(children, href) == [node |-> "a", children |-> children, href |-> href]

ElImg(src, alt) == [node |-> "img", src |-> src, alt |-> alt]

\* A mutant: the empty node is an empty text leaf.
ElEmptyAsText == [node |-> "text", text |-> ""]

ElEmpty == ElFragment(<<>>)

ElText(text) == [node |-> "text", text |-> text]

ElInputCheckbox(checked, attributes) ==
    [node |-> "checkbox", checked |-> checked, attributes |-> attributes]

CallHandler(callback, input) ==
    [call |-> "call_handler", callback |-> callback, input |-> input]

CallHtmlCallback(callback, input) ==
    [node |-> "html_callback", callback |-> callback, input |-> input]

MakeHandler(f) == [handler |-> f]

OnClick(handler) == [DefaultAttributes EXCEPT !.on_click = Some(handler)]

-----------------------------------------------------------------------------
(* Context's provided methods.                                             *)

MarkdownMouseEvent(mouse_event, position) ==
    [mouse_event |-> mouse_event, position |-> position]

\* A mutant: the captured range loses its last byte.
MakeMdCallbackTruncated(position) ==
    MakeHandler([closure |-> "make_md_callback",
                 callback |-> props.on_click,
                 position |-> Range(position.start, position.end - 1)])

MakeMdCallback(position) ==
    MakeHandler([closure |-> "make_md_callback",
                 callback |-> props.on_click,
                 position |-> position])

\* The closure of make_md_callback, run on mouse event x: the calls it makes
\* and the event as it leaves it.
\* A mutant: the closure forwards every click twice.
MdCallbackClosureTwice(f, x) ==
    LET click_event == MarkdownMouseEvent(x, f.position)
    IN  [calls |-> IF f.callback.some
                   THEN <<CallHandler(f.callback.value, click_event),
                          CallHandler(f.callback.value, click_event)>>
                   ELSE <<>>,
         event |-> x]

MdCallbackClosure(f, x) ==
    LET click_event == MarkdownMouseEvent(x, f.position)
    IN  [calls |-> IF f.callback.some
                   THEN <<CallHandler(f.callback.value, click_event)>>
                   ELSE <<>>,
         event |-> x]

PreventDefault(e) == [e EXCEPT !.default_prevented = TRUE]
StopPropagation(e) == [e EXCEPT !.propagation_stopped = TRUE]

\* A mutant: the suppression happens only when a click callback is configured.
TasklistClosureGuarded(f, x) ==
    LET e == StopPropagation(PreventDefault(x))
    IN  IF f.callback.some
        THEN [calls |-> <<[call |-> "prevent_default"],
                          [call |-> "stop_propagation"],
                          CallHandler(f.callback.value,
                                      MarkdownMouseEvent(e, f.position))>>,
              event |-> e]
        ELSE [calls |-> <<>>, event |-> x]

\* The closure of render_tasklist_marker, run on mouse event x.
TasklistClosure(f, x) ==
    LET e == StopPropagation(PreventDefault(x))
        click_event == MarkdownMouseEvent(e, f.position)
    IN  [calls |-> <<[call |-> "prevent_default"],
                     [call |-> "stop_propagation"]>>
                   \o (IF f.callback.some
                       THEN <<CallHandler(f.callback.value, click_event)>>
                       ELSE <<>>),
         event |-> e]

RenderTasklistMarker(m, position) ==
    ElInputCheckbox(m,
        OnClick(MakeHandler([closure |-> "render_tasklist_marker",
                             callback |-> props.on_click,
                             position |-> position])))

RenderRule(range) == ElHr(OnClick(MakeMdCallback(range)))

RenderCode(s, range) ==
    ElWithAttributes("Code", ElText(s), OnClick(MakeMdCallback(range)))

RenderText(s, range) ==
    ElWithAttributes("Span", ElText(s), OnClick(MakeMdCallback(range)))

\* A mutant: the override is consulted for images only.
RenderLinkImagesOnly(link) ==
    IF link.image
    THEN IF props.render_links.some
         THEN [view |-> CallHtmlCallback(props.render_links.value, link),
               calls |-> <<[callback |-> props.render_links.value,
                            input |-> link]>>]
         ELSE [view |-> ElImg(link.url, link.title), calls |-> <<>>]
    ELSE [view |-> ElA(link.content, link.url), calls |-> <<>>]

\* render_link: the view and the html callback calls made for it.
RenderLink(link) ==
    IF props.render_links.some
    THEN [view |-> CallHtmlCallback(props.render_links.value, link),
          calls |-> <<[callback |-> props.render_links.value,
                       input |-> link]>>]
    ELSE IF ~link.image
         THEN [view |-> ElA(link.content, link.url), calls |-> <<>>]
         ELSE [view |-> ElImg(link.url, link.title), calls |-> <<>>]

LinkDescription(url, content, title, link_type, image) ==
    [url |-> url, content |-> content, title |-> title,
     link_type |-> link_type, image |-> image]

MdComponentProps(attributes, children) ==
    [attributes |-> attributes, children |-> children]

-----------------------------------------------------------------------------
(* The Renderer (mod render): an explicit stack of accumulators, one per   *)
(* open Start.  R is its state: the stack, the top-level nodes, the        *)
(* el_fragment and call_html_callback calls made, and whether it failed.   *)

NewRenderer ==
    [stack |-> <<>>, elements |-> <<>>, fragments |-> <<>>,
     htmlCalls |-> <<>>, failed |-> FALSE]

Accumulator(kind, arg, start) ==
    [kind |-> kind, arg |-> arg, start |-> start, children |-> <<>>]

\* Append a finished node to the innermost open accumulator, or to the
\* top-level output when none is open.
Emit(R, view) ==
    IF R.stack = <<>>
    THEN [R EXCEPT !.elements = Append(@, view)]
    ELSE [R EXCEPT !.stack[Len(R.stack)].children = Append(@, view)]

RenderLeaf(ev, range) ==
    CASE ev.tag = "Text" -> RenderText(ev.arg, range)
      [] ev.tag = "Code" -> RenderCode(ev.arg, range)
      [] ev.tag = "Rule" -> RenderRule(range)
      [] ev.tag = "TaskListMarker" -> RenderTasklistMarker(ev.checked, range)
      [] ev.tag = "SoftBreak" -> ElText(" ")
      [] ev.tag = "HardBreak" -> ElBr
      [] ev.tag = "Math" ->
            ElWithAttributes("Span", ElText(ev.arg),
                [DefaultAttributes EXCEPT !.classes = <<"math">>,
                                          !.on_click = Some(MakeMdCallback(range))])

\* The node of a closed construct, with the calls its construction makes.
RenderTag(acc, range) ==
    LET inner == ElFragment(acc.children)
        full == Range(acc.start, range.end)
    IN  CASE acc.kind = "Paragraph" ->
                [view |-> ElWithAttributes("Paragraph", inner,
                                           OnClick(MakeMdCallback(full))),
                 fragments |-> <<"Renderer">>, calls |-> <<>>]
          [] acc.kind \in {"Link", "Image"} ->
                LET r == RenderLink(LinkDescription(acc.arg, inner, "",
                                        "Inline", acc.kind = "Image"))
                IN  [view |-> r.view, fragments |-> <<"Renderer">>,
                     calls |-> r.calls]
          [] acc.kind = "Component" ->
                IF acc.arg \in DOMAIN props.components
                THEN LET input == MdComponentProps(<<>>, inner)
                     IN  [view |-> CallHtmlCallback(props.components[acc.arg],
                                                    input),
                          fragments |-> <<"Renderer">>,
                          calls |-> <<[callback |-> props.components[acc.arg],
                                       input |-> input]>>]
                ELSE [view |-> ElEmpty, fragments |-> <<"el_empty">>,
                      calls |-> <<>>]

\* One event of the stream.
RenderEvent(R, item) ==
    LET ev == item.event
    IN  CASE ev.tag = "Start" ->
                [R EXCEPT !.stack =
                    Append(@, Accumulator(ev.kind, ev.arg, item.range.start))]
          [] ev.tag = "End" ->
                IF R.stack = <<>> \/ Last(R.stack).kind # ev.kind
                THEN [R EXCEPT !.failed = TRUE]
                ELSE LET t == RenderTag(Last(R.stack), item.range)
                         popped == [R EXCEPT !.stack = Front(@),
                                             !.fragments = @ \o t.fragments,
                                             !.htmlCalls = @ \o t.calls]
                     IN  Emit(popped, t.view)
          [] OTHER -> Emit(R, RenderLeaf(ev, item.range))

\* The stream is exhausted: an accumulator still open is a fatal error.
RenderEnd(R) == IF R.stack # <<>> THEN [R EXCEPT !.failed = TRUE] ELSE R

RECURSIVE RenderFrom(_, _, _)
RenderFrom(R, s, i) ==
    IF R.failed \/ i > Len(s)
    THEN R
    ELSE RenderFrom(RenderEvent(R, s[i]), s, i + 1)

\* Renderer::new(cx, stream).collect() on a whole stream.
RenderAll(s) ==
    LET R == RenderFrom(NewRenderer, s, 1)
    IN  IF R.failed THEN R ELSE RenderEnd(R)

-----------------------------------------------------------------------------
(* render_markdown.                                                        *)

\* A mutant: only the first soft break is rewritten.
HardLineBreaksFirstOnly(s) ==
    [i \in 1..Len(s) |->
        IF s[i].event = SoftBreak
           /\ \A j \in 1..(i - 1) : s[j].event # SoftBreak
        THEN [s[i] EXCEPT !.event = HardBreak]
        ELSE s[i]]

\* The rewrite loop over the collected stream.
HardLineBreaks(s) ==
    [i \in 1..Len(s) |->
        IF s[i].event = SoftBreak
        THEN [s[i] EXCEPT !.event = HardBreak]
        ELSE s[i]]

Rewrite ==
    /\ pc = "rewrite"
    /\ stream' = IF props.hard_line_breaks THEN HardLineBreaks(stream)
                                           ELSE stream
    /\ pc' = "traverse"
    /\ UNCHANGED <<props, source, pos, stack, elements, result, fragments,
                   mounts, htmlCalls, click>>

\* The Renderer yields its next item, or panics.
RendererNext ==
    /\ pc = "traverse"
    /\ pos < Len(stream)
    /\ LET R == RenderEvent([stack |-> stack, elements |-> elements,
                             fragments |-> fragments, htmlCalls |-> htmlCalls,
                             failed |-> FALSE], stream[pos + 1])
       IN  IF R.failed
           THEN /\ pc' = "panicked"
                /\ UNCHANGED <<pos, stack, elements, fragments, htmlCalls>>
           ELSE /\ pc' = pc
                /\ pos' = pos + 1
                /\ stack' = R.stack
                /\ elements' = R.elements
                /\ fragments' = R.fragments
                /\ htmlCalls' = R.htmlCalls
    /\ UNCHANGED <<props, source, stream, result, mounts, click>>

\* The Renderer is exhausted and collect returns, or panics.
RendererEnd ==
    /\ pc = "traverse"
    /\ pos = Len(stream)
    /\ pc' = IF stack # <<>> THEN "panicked" ELSE "mount"
    /\ UNCHANGED <<props, source, stream, pos, stack, elements, result,
                   fragments, mounts, htmlCalls, click>>

\* The number of events of the stream with this tag.
NumberOf(s, tag) == Cardinality({i \in 1..Len(s) : s[i].event.tag = tag})

\* A mutant: one registration per math construct.
MountDynamicLinkPerMath ==
    /\ pc = "mount"
    /\ mounts' = mounts + NumberOf(stream, "Math")
    /\ pc' = "fragment"
    /\ UNCHANGED <<props, source, stream, pos, stack, elements, result,
                   fragments, htmlCalls, click>>

\* A mutant: the stylesheet is registered before the traversal.
MountDynamicLinkEarly ==
    /\ \/ /\ pc = "traverse" /\ mounts = 0
          /\ mounts' = 1 /\ pc' = pc
       \/ /\ pc = "mount"
          /\ mounts' = 1 /\ pc' = "fragment"
    /\ UNCHANGED <<props, source, stream, pos, stack, elements, result,
                   fragments, htmlCalls, click>>

\* A mutant: the pass goes on after the Renderer failed.
MountDynamicLinkAfterPanic ==
    /\ pc \in {"mount", "panicked"}
    /\ mounts' = mounts + 1
    /\ pc' = "fragment"
    /\ UNCHANGED <<props, source, stream, pos, stack, elements, result,
                   fragments, htmlCalls, click>>

MountDynamicLink ==
    /\ pc = "mount"
    /\ mounts' = mounts + 1
    /\ pc' = "fragment"
    /\ UNCHANGED <<props, source, stream, pos, stack, elements, result,
                   fragments, htmlCalls, click>>

\* A mutant: a single top-level node is returned as it is.
ReturnFragmentUnwrapped ==
    /\ pc = "fragment"
    /\ IF Len(elements) = 1
       THEN /\ result' = Some(elements[1])
            /\ fragments' = fragments
       ELSE /\ result' = Some(ElFragment(elements))
            /\ fragments' = Append(fragments, "render_markdown")
    /\ pc' = "done"
    /\ UNCHANGED <<props, source, stream, pos, stack, elements, mounts,
                   htmlCalls, click>>

ReturnFragment ==
    /\ pc = "fragment"
    /\ result' = Some(ElFragment(elements))
    /\ fragments' = Append(fragments, "render_markdown")
    /\ pc' = "done"
    /\ UNCHANGED <<props, source, stream, pos, stack, elements, mounts,
                   htmlCalls, click>>

-----------------------------------------------------------------------------
(* The host: it dispatches pointer events to the handlers of the mounted   *)
(* tree, and performs an element's default action (a checkbox toggles)     *)
(* unless the handler prevented it.                                        *)

\* Most activations followed after one pass.
MaxClicks == 2

MouseEvents ==
    {[id |-> i, default_prevented |-> FALSE, propagation_stopped |-> FALSE] :
        i \in {1, 2}}

OptionSet(o) == IF o.some THEN {o.value} ELSE {}

RECURSIVE Handlers(_)
RECURSIVE HandlersOfAll(_)
\* The handlers mounted with a view.
Handlers(view) ==
    CASE view.node = "element" ->
            OptionSet(view.attributes.on_click) \cup Handlers(view.inside)
      [] view.node \in {"hr", "checkbox"} -> OptionSet(view.attributes.on_click)
      [] view.node = "fragment" -> HandlersOfAll(view.children)
      [] view.node = "a" -> Handlers(view.children)
      [] view.node = "html_callback" ->
            IF "content" \in DOMAIN view.input
            THEN Handlers(view.input.content)
            ELSE Handlers(view.input.children)
      [] OTHER -> {}

HandlersOfAll(views) ==
    IF views = <<>> THEN {}
    ELSE Handlers(views[1]) \cup HandlersOfAll(Tail(views))

\* The host runs a handler made by make_handler on a mouse event.
Activate(h, x) ==
    IF h.handler.closure = "make_md_callback"
    THEN MdCallbackClosure(h.handler, x)
    ELSE TasklistClosure(h.handler, x)

Activations == IF click.some THEN click.value.n ELSE 0

Click ==
    /\ pc = "done"
    /\ Activations < MaxClicks
    /\ \E h \in Handlers(result.value), x \in MouseEvents :
          LET out == Activate(h, x)
          IN  click' = Some([target |-> h,
                             mouse_event |-> x,
                             calls |-> out.calls,
                             event |-> out.event,
                             toggled |->
                                /\ h.handler.closure = "render_tasklist_marker"
                                /\ ~out.event.default_prevented,
                             n |-> Activations + 1])
    /\ UNCHANGED <<props, source, stream, pc, pos, stack, elements, result,
                   fragments, mounts, htmlCalls>>

-----------------------------------------------------------------------------
(* The inputs: streams over small alphabets, each with the configurations  *)
(* its events exercise.  The i-th event covers the bytes i-1 .. i.         *)

ClickCallback == Some("on_click")
LinkCallback == Some("render_links")
Components == [name \in {"Counter"} |-> "render_counter"]

Families ==
    { [events |-> {StartEv("Paragraph", ""), EndEv("Paragraph"),
                   StartEv("Link", "u"), EndEv("Link"), LeafEv("Text", "t")},
       on_click |-> {ClickCallback}, render_links |-> {None},
       hard_line_breaks |-> {FALSE}],
      [events |-> {StartEv("Link", "u"), EndEv("Link"),
                   StartEv("Image", "i"), EndEv("Image"), LeafEv("Text", "t")},
       on_click |-> {ClickCallback}, render_links |-> {None, LinkCallback},
       hard_line_breaks |-> {FALSE}],
      [events |-> {StartEv("Paragraph", ""), EndEv("Paragraph"),
                   SoftBreak, HardBreak, LeafEv("Text", "t")},
       on_click |-> {ClickCallback}, render_links |-> {None},
       hard_line_breaks |-> {FALSE, TRUE}],
      [events |-> {LeafEv("Text", "t"), LeafEv("Code", "c"), LeafEv("Rule", ""),
                   TaskEv(FALSE), TaskEv(TRUE)},
       on_click |-> {None, ClickCallback}, render_links |-> {None},
       hard_line_breaks |-> {FALSE}],
      [events |-> {StartEv("Component", "Missing"),
                   StartEv("Component", "Counter"), EndEv("Component"),
                   LeafEv("Text", "t"), LeafEv("Math", "m")},
       on_click |-> {ClickCallback}, render_links |-> {None},
       hard_line_breaks |-> {FALSE}] }

SeqsUpTo(S, n) == UNION {[1..k -> S] : k \in 0..n}

Tagged(evs) ==
    [i \in 1..Len(evs) |-> [event |-> evs[i], range |-> Range(i - 1, i)]]

Init ==
    /\ \E fam \in Families :
          /\ \E evs \in SeqsUpTo(fam.events, MaxLen) : source = Tagged(evs)
          /\ props \in [on_click : fam.on_click,
                        render_links : fam.render_links,
                        hard_line_breaks : fam.hard_line_breaks,
                        components : {Components}]
    /\ stream = source
    /\ pc = "rewrite"
    /\ pos = 0
    /\ stack = <<>>
    /\ elements = <<>>
    /\ result = None
    /\ fragments = <<>>
    /\ mounts = 0
    /\ htmlCalls = <<>>
    /\ click = None

\* A step of the render pass.
Pass ==
    \/ Rewrite
    \/ RendererNext
    \/ RendererEnd
    \/ MountDynamicLink
    \/ ReturnFragment

Next == Pass \/ Click

Spec == Init /\ [][Next]_vars

-----------------------------------------------------------------------------
(* Vocabulary of the properties.                                           *)

\* Every Start has one matching End, correctly nested: a scan with the
\* kinds still open.
RECURSIVE Nested(_, _, _)
Nested(s, i, open) ==
    IF i > Len(s) THEN open = <<>>
    ELSE CASE s[i].event.tag = "Start" ->
                Nested(s, i + 1, Append(open, s[i].event.kind))
           [] s[i].event.tag = "End" ->
                /\ open # <<>>
                /\ Last(open) = s[i].event.kind
                /\ Nested(s, i + 1, Front(open))
           [] OTHER -> Nested(s, i + 1, open)

WellFormed(s) == Nested(s, 1, <<>>)

\* The leaves whose node carries a click handler of its own.
InteractiveLeaves == {"Text", "Code", "Rule", "TaskListMarker"}
StructuralMismatch(s) == ~WellFormed(s)

\* The node the Renderer produced last.
LastRendered ==
    IF stack # <<>> THEN Last(Last(stack).children) ELSE Last(elements)

\* The Renderer consumes an event with this tag and does not fail.
Consumes(tags) ==
    /\ pc = "traverse"
    /\ pos' = pos + 1
    /\ stream[pos + 1].event.tag \in tags

\* The host activates a handler built from this closure.
Activates(closure) ==
    /\ click' # click
    /\ click'.value.target.handler.closure = closure

\* The MarkdownMouseEvents a sequence of calls hands to click callbacks.
Emitted(calls) ==
    {calls[k].input : k \in {j \in 1..Len(calls) : calls[j].call = "call_handler"}}

CountOf(s, x) == Cardinality({i \in 1..Len(s) : s[i] = x})

-----------------------------------------------------------------------------
(* C1 as stated: for a well-formed stream the pass never fails and never   *)
(* stops short of returning, the stack is empty once the last event is     *)
(* consumed, and el_fragment is called exactly once in the whole pass, on  *)
(* the list of top-level nodes.                                            *)
C1_OneFragmentCall ==
    WellFormed(source) =>
        /\ pc # "panicked"
        /\ pc # "done" => ENABLED Pass
        /\ pos = Len(stream) => stack = <<>>
        /\ pc = "done" =>
              /\ result = Some(ElFragment(elements))
              /\ Len(fragments) = 1

(* C1 amended: for a well-formed stream the pass never fails and never     *)
(* stops short of returning, the stack is empty once the last event is     *)
(* consumed, and render_markdown itself calls el_fragment exactly once, as *)
(* the last el_fragment call of the pass, on the list of top-level nodes,  *)
(* and returns that fragment; nested constructs and empty nodes make       *)
(* el_fragment calls of their own before it.                               *)
C1_OneTopLevelFragment ==
    WellFormed(source) =>
        /\ pc # "panicked"
        /\ pc # "done" => ENABLED Pass
        /\ pos = Len(stream) => stack = <<>>
        /\ CountOf(fragments, "render_markdown") = (IF pc = "done" THEN 1 ELSE 0)
        /\ pc = "done" =>
              /\ result = Some(ElFragment(elements))
              /\ Last(fragments) = "render_markdown"

C1_Witness ==
    /\ pc = "done"
    /\ WellFormed(source)
    /\ Len(source) = 4
    /\ Len(fragments) = 3
    /\ Len(elements) = 2

(* C2: a stream with a structural mismatch never yields a fragment: the    *)
(* pass goes on until the Renderer fails, the failure is final (no step    *)
(* follows it, no stylesheet is registered, nothing is returned), and the  *)
(* stack is left as the mismatch found it: an End facing an empty stack or *)
(* another kind, or accumulators still open at the end of the stream.      *)
C2_MismatchIsFatal ==
    /\ StructuralMismatch(source) =>
          /\ result = None
          /\ mounts = 0
          /\ pc \in {"rewrite", "traverse", "panicked"}
          /\ pc # "panicked" => ENABLED Pass
    /\ pc = "panicked" =>
          /\ StructuralMismatch(source)
          /\ ~ENABLED Next
          /\ IF pos = Len(stream)
             THEN stack # <<>>
             ELSE /\ stream[pos + 1].event.tag = "End"
                  /\ \/ stack = <<>>
                     \/ Last(stack).kind # stream[pos + 1].event.kind

C2_Witness ==
    /\ pc = "panicked"
    /\ pos < Len(stream)
    /\ stack # <<>>
    /\ elements # <<>>

(* C3: when the Renderer consumes a text, code, rule or task-list marker   *)
(* event, the node it produces carries a click handler that captured the   *)
(* event's range, and every MarkdownMouseEvent the handler emits, for any  *)
(* mouse event, carries exactly that range; every activation by the host   *)
(* emits only events with the range its handler captured.                  *)
C3_RangeFidelity ==
    [][ /\ Consumes(InteractiveLeaves) =>
              LET range == source[pos + 1].range
                  on_click == LastRendered'.attributes.on_click
              IN  /\ on_click.some
                  /\ on_click.value.handler.position = range
                  /\ \A x \in MouseEvents :
                        \A e \in Emitted(Activate(on_click.value, x).calls) :
                            e.position = range
        /\ click' # click =>
              \A e \in Emitted(click'.value.calls) :
                  e.position = click'.value.target.handler.position
      ]_vars

C3_Witness ==
    /\ click.some
    /\ \E i \in 1..Len(source) :
          /\ source[i].event.tag = "Code"
          /\ i > 1
          /\ Emitted(click.value.calls) =
                {MarkdownMouseEvent(click.value.mouse_event, source[i].range)}

\* The stream with HardBreak in the place of every SoftBreak.
WithHardBreaks(s) ==
    [i \in 1..Len(s) |->
        [event |-> IF s[i].event.tag = "SoftBreak" THEN HardBreak
                                                    ELSE s[i].event,
         range |-> s[i].range]]

C5_LinkOverride ==
    [][ (Consumes({"End"}) /\ stream[pos + 1].event.kind = "Link") =>
            LET acc == Last(stack)
                content == ElFragment(acc.children)
            IN  IF props.render_links.some
                THEN /\ Len(htmlCalls') = Len(htmlCalls) + 1
                     /\ Front(htmlCalls') = htmlCalls
                     /\ Last(htmlCalls').callback = props.render_links.value
                     /\ Last(htmlCalls').input.content = content
                     /\ Last(htmlCalls').input.url = acc.arg
                     /\ ~Last(htmlCalls').input.image
                     /\ LastRendered' =
                           CallHtmlCallback(props.render_links.value,
                                            Last(htmlCalls').input)
                ELSE /\ htmlCalls' = htmlCalls
                     /\ LastRendered' = ElA(content, acc.arg)
      ]_vars

C5_Witness ==
    /\ pc = "done"
    /\ Len(htmlCalls) = 1
    /\ htmlCalls[1].callback = "render_links"
    /\ ~htmlCalls[1].input.image
    /\ htmlCalls[1].input.content.children # <<>>
    /\ elements = <<CallHtmlCallback("render_links", htmlCalls[1].input)>>

(* C6: every activation of a checkbox's handler first prevents the default *)
(* action, then stops propagation, then hands exactly one                  *)
(* MarkdownMouseEvent with the marker's range to the click callback when   *)
(* one is configured and makes no further call when none is; the host does *)
(* not toggle the checkbox and the rendered tree stays as it was.          *)
C6_TasklistClick ==
    [][ Activates("render_tasklist_marker") =>
            LET c == click'.value
                rest == SubSeq(c.calls, 3, Len(c.calls))
            IN  /\ Len(c.calls) >= 2
                /\ c.calls[1] = [call |-> "prevent_default"]
                /\ c.calls[2] = [call |-> "stop_propagation"]
                /\ c.event.default_prevented
                /\ c.event.propagation_stopped
                /\ ~c.toggled
                /\ result' = result
                /\ \E i \in 1..Len(source) :
                      /\ source[i].event.tag = "TaskListMarker"
                      /\ source[i].range = c.target.handler.position
                      /\ rest = IF props.on_click.some
                                THEN <<CallHandler(props.on_click.value,
                                          MarkdownMouseEvent(c.event,
                                                             source[i].range))>>
                                ELSE <<>>
      ]_vars

C6_Witness ==
    /\ click.some
    /\ click.value.target.handler.closure = "render_tasklist_marker"
    /\ ~props.on_click.some
    /\ click.value.n = 2
    /\ Len(click.value.calls) = 2
    /\ click.value.event.default_prevented

(* C7 as stated: a returned pass has made as many mount_dynamic_link calls *)
(* as the document holds math constructs.                                  *)
C7_OneCallPerMath ==
    pc = "done" => mounts = NumberOf(source, "Math")

(* C7 amended: a returned pass has made exactly one mount_dynamic_link     *)
(* call, whatever the number of math constructs in the document (none,     *)
(* one or several); a pass that has not returned has made at most one.     *)
C7_OneCallPerPass ==
    /\ mounts <= 1
    /\ pc = "done" => mounts = 1

C7_Witness ==
    /\ pc = "done"
    /\ NumberOf(source, "Math") = 2
    /\ mounts = 1

(* C8: the stylesheet is registered only once the Renderer has consumed    *)
(* every event and collect has returned, it is registered before the       *)
(* fragment is built, and a pass over a document holding math has          *)
(* registered it exactly once when it returns.                             *)
C8_MountAfterTraversal ==
    /\ mounts > 0 => pos = Len(stream) /\ stack = <<>> /\ pc \in {"fragment", "done"}
    /\ pc \in {"rewrite", "traverse", "mount", "panicked"} => mounts = 0
    /\ (result.some \/ CountOf(fragments, "render_markdown") > 0) => mounts = 1
    /\ (pc = "done" /\ NumberOf(source, "Math") > 0) => mounts = 1

C8_Witness ==
    /\ pc = "fragment"
    /\ NumberOf(source, "Math") = 2
    /\ mounts = 1
    /\ result = None

\* The stream without its unregistered components, each dropped from its
\* Start to its End; depth counts the constructs open inside the one being
\* dropped.
RECURSIVE WithoutUnregistered(_, _, _)
WithoutUnregistered(s, i, depth) ==
    IF i > Len(s) THEN <<>>
    ELSE LET ev == s[i].event
         IN  IF depth = 0
             THEN IF /\ ev.tag = "Start"
                     /\ ev.kind = "Component"
                     /\ ev.arg \notin DOMAIN props.components
                  THEN WithoutUnregistered(s, i + 1, 1)
                  ELSE <<s[i]>> \o WithoutUnregistered(s, i + 1, 0)
             ELSE WithoutUnregistered(s, i + 1,
                      CASE ev.tag = "Start" -> depth + 1
                        [] ev.tag = "End" -> depth - 1
                        [] OTHER -> depth)

\* A view without the empty nodes among its lists of children.
RECURSIVE WithoutEmpty(_)
RECURSIVE WithoutEmptyAll(_)
WithoutEmpty(view) ==
    CASE view.node = "fragment" -> ElFragment(WithoutEmptyAll(view.children))
      [] view.node = "element" ->
            [view EXCEPT !.inside = WithoutEmpty(@)]
      [] view.node = "a" -> [view EXCEPT !.children = WithoutEmpty(@)]
      [] view.node = "html_callback" ->
            IF "content" \in DOMAIN view.input
            THEN [view EXCEPT !.input.content = WithoutEmpty(@)]
            ELSE [view EXCEPT !.input.children = WithoutEmpty(@)]
      [] OTHER -> view

WithoutEmptyAll(views) ==
    IF views = <<>> THEN <<>>
    ELSE IF views[1] = [node |-> "fragment", children |-> <<>>]
         THEN WithoutEmptyAll(Tail(views))
         ELSE <<WithoutEmpty(views[1])>> \o WithoutEmptyAll(Tail(views))

UnregisteredAt(s, i) ==
    /\ s[i].event.tag = "Start"
    /\ s[i].event.kind = "Component"
    /\ s[i].event.arg \notin DOMAIN props.components

(* C9: closing a component whose name is not registered places an empty    *)
(* node (a fragment without children) and calls no callback; a well-formed *)
(* stream holding such components never fails, and the tree it returns is, *)
(* the empty nodes apart, the tree of the stream without those components. *)
C9_UnregisteredComponent ==
    /\ (/\ pc = "traverse"
        /\ pos > 0
        /\ stream[pos].event = EndEv("Component")
        /\ LastRendered.node # "html_callback") =>
            LastRendered = [node |-> "fragment", children |-> <<>>]
    /\ WellFormed(source) =>
          /\ pc # "panicked"
          /\ pc = "done" =>
                WithoutEmpty(result.value) =
                    ElFragment(RenderAll(WithoutUnregistered(stream, 1, 0)).elements)

C9_Witness ==
    /\ pc = "done"
    /\ Len(elements) = 3
    /\ elements[1] = RenderText("t", Range(0, 1))
    /\ elements[2] = [node |-> "fragment", children |-> <<>>]
    /\ elements[3] = RenderText("t", Range(3, 4))
    /\ UnregisteredAt(source, 2)

(* C10: every activation of a handler built by make_md_callback makes      *)
(* exactly one call, of the configured click callback with the mouse event *)
(* it was given and the range it captured, when a click callback is        *)
(* configured, and no call at all when none is; it leaves the mouse event  *)
(* as it was, and this holds of the first activation as of any later one.  *)
C10_ClickAdapter ==
    [][ Activates("make_md_callback") =>
            LET c == click'.value
            IN  /\ c.n = Activations + 1
                /\ c.event = c.mouse_event
                /\ ~c.toggled
                /\ c.calls =
                      IF props.on_click.some
                      THEN <<CallHandler(props.on_click.value,
                                MarkdownMouseEvent(c.mouse_event,
                                    c.target.handler.position))>>
                      ELSE <<>>
      ]_vars

C10_Witness ==
    /\ click.some
    /\ click.value.target.handler.closure = "make_md_callback"
    /\ click.value.n = 2
    /\ Len(click.value.calls) = 1
    /\ click.value.calls[1].input.mouse_event.id = 2

====
